---------------------------- MODULE Spec2Model ----------------------------
(***************************************************************************)
(* Model of the Piper Malayalam TTS pipeline (main_api.py, main.py):       *)
(*   - synthesize_bytes: the ordered fallback from the engine's direct     *)
(*     WAV synthesis to its raw chunk stream, and the request check that   *)
(*     precedes it;                                                        *)
(*   - process_audio_effects / process_audio: the chain of pydub stages.   *)
(* The two source files are the two values of `variant`.                   *)
(***************************************************************************)
EXTENDS Integers, Sequences, FiniteSets, TLC

VARIABLES
    variant,    \* "main_api" (src/main_api.py) or "main" (src/main.py)
    pc,         \* position in the request being served
    text,       \* the text of the request
    voice,      \* the loaded engine: what its two capabilities do
    calls,      \* engine capabilities invoked so far, in order
    result,     \* outcome of synthesize_bytes / of the request check
    wav_bytes,  \* input container of the effects processor
    params,     \* pitch, speed, bass, treble, gain, normalize
    audio,      \* the AudioSegment being transformed
    stages,     \* stages that transformed `audio` so far, in order
    out         \* outcome of the effects processor

vars == <<variant, pc, text, voice, calls, result,
          wav_bytes, params, audio, stages, out>>

Variants == {"main_api", "main"}

(***************************************************************************)
(* Bounds of the model.                                                    *)
(***************************************************************************)
MaxChunks == 3
MaxFrames == 3

(***************************************************************************)
(* Program constants.                                                      *)
(***************************************************************************)
HeaderSize == 44
DefaultRate == 24000
DefaultChannels == 1
DefaultWidth == 2
StandardRate == 24000

None == [kind |-> "none"]

(***************************************************************************)
(* Python values the engine hands over.  A bytes object and an int16       *)
(* sample array both support bytes(); an object carries attributes.        *)
(***************************************************************************)
BytesObj(s) == [kind |-> "bytes", val |-> s]
Int16Array(s) == [kind |-> "int16", val |-> s]
Obj(a) == [kind |-> "obj", attrs |-> a]

\* two's complement little-endian bytes of one 16-bit sample
LE16(v) ==
    LET u == v % 65536 IN <<u % 256, u \div 256>>

RECURSIVE PackLE16(_)
PackLE16(s) ==
    IF s = <<>> THEN <<>> ELSE LE16(Head(s)) \o PackLE16(Tail(s))

\* bytes(x)
ToBytes(x) ==
    IF x.kind = "bytes" THEN x.val ELSE PackLE16(x.val)

\* getattr(o, name, default)
GetAttr(o, name, default) ==
    IF o.kind = "obj" /\ name \in DOMAIN o.attrs THEN o.attrs[name] ELSE default

\* str.strip(): whitespace removed at both ends
RECURSIVE LStrip(_)
LStrip(t) ==
    IF t # <<>> /\ Head(t) = " " THEN LStrip(Tail(t)) ELSE t

RECURSIVE RStrip(_)
RStrip(t) ==
    IF t # <<>> /\ t[Len(t)] = " " THEN RStrip(SubSeq(t, 1, Len(t) - 1)) ELSE t

Strip(t) == RStrip(LStrip(t))

(***************************************************************************)
(* The wave module: a container is its header fields and its data.         *)
(***************************************************************************)
WaveWrite(ch, sw, sr, raw) ==
    [nchannels |-> ch, sampwidth |-> sw, framerate |-> sr, data |-> raw]

NBytes(c) == HeaderSize + Len(c.data)


(***************************************************************************)
(* Engines and requests the model ranges over.                             *)
(***************************************************************************)
Texts == {<<>>, <<" ">>, <<" ", " ">>, <<"a">>, <<" ", "a", " ">>}

\* what synthesize_wav does with the wave writer it is given
DirectFrames == <<10, 0, 20, 0>>

\* has: hasattr(voice, "synthesize_wav"); raises: the with-block ends in an
\* exception (raised by the engine, or by wave on closing a writer whose
\* parameters were never set); frames: what was written before that
Directs ==
    {[has |-> FALSE, raises |-> TRUE, frames |-> <<>>]}
    \cup [has : {TRUE}, raises : BOOLEAN, frames : {<<>>, DirectFrames}]

\* chunks of every payload shape (data, samples, both, the chunk itself as
\* bytes) and with metadata present, partly present or absent
ChunkKinds ==
    { Obj([data |-> BytesObj(<<1, 2>>)]),
      Obj([samples |-> Int16Array(<<-2>>)]),
      Obj([samples |-> Int16Array(<<259>>),
           sample_rate |-> 22050, channels |-> 2, sample_width |-> 1]),
      Obj([data |-> BytesObj(<<3, 4>>), samples |-> Int16Array(<<-2>>),
           rate |-> 16000]),
      Obj([data |-> BytesObj(<<1, 2>>),
           sampleRate |-> 44100, rate |-> 16000, channels |-> 2]),
      Obj([data |-> BytesObj(<<5, 6>>),
           sample_rate |-> 22050, channels |-> 1, sample_width |-> 2]),
      BytesObj(<<7, 8>>),
      BytesObj(<<>>) }

ChunkSeqs == UNION {[1..n -> ChunkKinds] : n \in 0..MaxChunks}

\* voice.synthesize(txt): raises, or yields the chunks
Synths ==
    {[raises |-> TRUE, chunks |-> <<>>]}
    \cup [raises : {FALSE}, chunks : ChunkSeqs]

Voices == [wav : Directs, synth : Synths]

Ok(c, how) == [kind |-> "ok", wav |-> c, via |-> how]
Error(t, d) == [kind |-> "error", type |-> t, detail |-> d]

(***************************************************************************)
(* synthesize_bytes, direct attempt.                                       *)
(***************************************************************************)
\* the buffer after the with-block: what the engine wrote through the writer
DirectContainer(w) == WaveWrite(1, 2, 22050, w.frames)

\* mutant: a buffer holding the header alone is taken for audio
DirectAcceptedHeaderOnly(w) ==
    /\ w.has
    /\ ~w.raises
    /\ NBytes(DirectContainer(w)) >= HeaderSize

\* the try-block reaches `return bio.read()`
DirectAccepted(w) ==
    /\ w.has
    /\ ~w.raises
    /\ NBytes(DirectContainer(w)) > HeaderSize

(***************************************************************************)
(* synthesize_bytes, raw-chunk fallback.                                   *)
(***************************************************************************)
\* mutant: the samples field is preferred to the data field
ChunkDataSamplesFirst(c) ==
    ToBytes(GetAttr(c, "samples", GetAttr(c, "data", c)))

ChunkData(c) == ToBytes(GetAttr(c, "data", GetAttr(c, "samples", c)))

RECURSIVE JoinFrames(_)
JoinFrames(chunks) ==
    IF chunks = <<>> THEN <<>>
    ELSE ChunkData(Head(chunks)) \o JoinFrames(Tail(chunks))

HeaderRate(first) == GetAttr(first, "sample_rate", DefaultRate)
HeaderChannels(first) == GetAttr(first, "channels", DefaultChannels)
HeaderWidth(first) == GetAttr(first, "sample_width", DefaultWidth)

RawContainer(chunks) ==
    LET first == chunks[1]
        raw == JoinFrames(chunks)
    IN WaveWrite(HeaderChannels(first), HeaderWidth(first), HeaderRate(first), raw)

\* what an empty chunk list leads to: main_api.py checks it, main.py indexes it
EmptyChunks(v) ==
    IF v = "main_api" THEN Error("ValueError", "No audio generated")
    ELSE Error("IndexError", "list index out of range")

\* the request check before synthesize_bytes: only main_api.py has one
RejectsText(v, t) == v = "main_api" /\ Strip(t) = <<>>

(***************************************************************************)
(* Steps of a synthesis request.                                           *)
(***************************************************************************)
FxIdle ==
    /\ wav_bytes = None /\ params = None /\ audio = None
    /\ stages = <<>> /\ out = None

\* a request arriving with the voice model loaded
SynthInit ==
    /\ variant \in Variants
    /\ text \in Texts
    /\ voice \in Voices
    /\ pc = "request"
    /\ calls = <<>>
    /\ result = None
    /\ FxIdle

HandleRequest ==
    /\ pc = "request"
    /\ IF RejectsText(variant, text)
       THEN /\ result' = Error("HTTPException", "Text cannot be empty")
            /\ pc' = "done"
       ELSE /\ result' = result
            /\ pc' = "direct"
    /\ UNCHANGED <<variant, text, voice, calls, wav_bytes, params, audio, stages, out>>

DirectAttempt ==
    /\ pc = "direct"
    /\ calls' = IF voice.wav.has THEN Append(calls, "synthesize_wav") ELSE calls
    /\ IF DirectAccepted(voice.wav)
       THEN /\ result' = Ok(DirectContainer(voice.wav), "direct")
            /\ pc' = "done"
       ELSE /\ result' = result
            /\ pc' = "fallback"
    /\ UNCHANGED <<variant, text, voice, wav_bytes, params, audio, stages, out>>

RawChunks ==
    /\ pc = "fallback"
    /\ calls' = Append(calls, "synthesize")
    /\ result' =
         IF voice.synth.raises THEN Error("EngineError", "synthesize raised")
         ELSE IF voice.synth.chunks = <<>> THEN EmptyChunks(variant)
         ELSE Ok(RawContainer(voice.synth.chunks), "raw")
    /\ pc' = "done"
    /\ UNCHANGED <<variant, text, voice, wav_bytes, params, audio, stages, out>>

SynthNext == HandleRequest \/ DirectAttempt \/ RawChunks

SynthSpec == SynthInit /\ [][SynthNext]_vars


(***************************************************************************)
(* Claims about the synthesis normalizer, checked under SynthSpec.         *)
(***************************************************************************)
\* the request was turned away before synthesize_bytes
Rejected == result.kind = "error" /\ result.type = "HTTPException"

\* synthesize_bytes ran and has returned or raised
Finished == pc = "done" /\ ~Rejected

Count(s, x) == Cardinality({i \in DOMAIN s : s[i] = x})

\* the direct attempt raised nothing and wrote more than 44 bytes
DirectWroteAudio ==
    /\ voice.wav.has
    /\ ~voice.wav.raises
    /\ 44 + Len(voice.wav.frames) > 44

\* C1: the direct container is returned as-is exactly when the direct attempt
\* raised nothing and wrote more than 44 bytes; then the raw-chunk capability
\* is never invoked.  In every other case the raw-chunk capability is invoked
\* exactly once, after the direct attempt.
C1_OrderedFallback ==
    /\ Count(calls, "synthesize") <= 1
    /\ Count(calls, "synthesize_wav") <= 1
    /\ Finished =>
         /\ (result.kind = "ok" /\ result.via = "direct") <=> DirectWroteAudio
         /\ DirectWroteAudio =>
              /\ result.wav.data = voice.wav.frames
              /\ result.wav.framerate = 22050
              /\ calls = <<"synthesize_wav">>
         /\ ~DirectWroteAudio =>
              /\ Count(calls, "synthesize") = 1
              /\ calls[Len(calls)] = "synthesize"

\* the direct attempt wrote a header and nothing else (exactly 44 bytes) and
\* the request went on to the raw chunks
C1_Witness ==
    /\ Finished
    /\ voice.wav.has /\ ~voice.wav.raises /\ voice.wav.frames = <<>>
    /\ calls = <<"synthesize_wav", "synthesize">>
    /\ result.kind = "ok" /\ result.via = "raw"

HasAttr(c, name) == c.kind = "obj" /\ name \in DOMAIN c.attrs

\* a chunk's payload as the claim words it
ClaimedPayload(c) ==
    IF HasAttr(c, "data") THEN ToBytes(c.attrs.data)
    ELSE IF HasAttr(c, "samples") THEN ToBytes(c.attrs.samples)
    ELSE c.val

RECURSIVE ClaimedBody(_, _)
ClaimedBody(chunks, n) ==
    IF n = 0 THEN <<>>
    ELSE ClaimedBody(chunks, n - 1) \o ClaimedPayload(chunks[n])

\* C2: in raw-chunk mode, a non-empty chunk sequence yields a container whose
\* body is the payloads of the chunks, one each, in emission order.
C2_BodyIsConcatenation ==
    (Finished /\ calls[Len(calls)] = "synthesize"
        /\ ~voice.synth.raises /\ voice.synth.chunks # <<>>) =>
      /\ result.kind = "ok"
      /\ result.via = "raw"
      /\ result.wav.data =
           ClaimedBody(voice.synth.chunks, Len(voice.synth.chunks))

\* the direct attempt raised and three chunks of the three shapes came back:
\* one with both fields, one with samples only, one of plain bytes
C2_Witness ==
    /\ Finished
    /\ voice.wav.has /\ voice.wav.raises
    /\ result.kind = "ok" /\ result.via = "raw"
    /\ Len(voice.synth.chunks) = 3
    /\ HasAttr(voice.synth.chunks[1], "data")
    /\ HasAttr(voice.synth.chunks[1], "samples")
    /\ voice.synth.chunks[2] = Obj([samples |-> Int16Array(<<-2>>)])
    /\ voice.synth.chunks[3] = BytesObj(<<7, 8>>)
    /\ result.wav.data = <<3, 4, 254, 255, 7, 8>>

\* C3: when the direct capability raises and the raw-chunk capability yields
\* nothing, synthesis fails with the synthesis-specific error, in both variants.
C3_EmptyChunksSynthesisError ==
    (Finished /\ voice.wav.has /\ voice.wav.raises
        /\ ~voice.synth.raises /\ voice.synth.chunks = <<>>) =>
      result = Error("ValueError", "No audio generated")

\* C4: an empty or whitespace-only text ends in an error, and neither engine
\* capability is invoked for it.
C4_BlankTextRejected ==
    Strip(text) = <<>> =>
      /\ calls = <<>>
      /\ pc = "done" => result.kind = "error"

\* the first present field among the names, else the fallback
RECURSIVE FirstPresent(_, _, _)
FirstPresent(c, names, fallback) ==
    IF names = <<>> THEN fallback
    ELSE IF HasAttr(c, Head(names)) THEN c.attrs[Head(names)]
    ELSE FirstPresent(c, Tail(names), fallback)

\* C8: in raw-chunk mode the header comes from the first chunk alone, each
\* field from the first present of its name variants (for the rate:
\* sample_rate, rate, sampleRate), else 24000 Hz, 1 channel, 2 bytes.
C8_HeaderFromFirstChunk ==
    (Finished /\ result.kind = "ok" /\ result.via = "raw") =>
      LET first == voice.synth.chunks[1] IN
      /\ result.wav.framerate =
           FirstPresent(first, <<"sample_rate", "rate", "sampleRate">>, 24000)
      /\ result.wav.nchannels = FirstPresent(first, <<"channels">>, 1)
      /\ result.wav.sampwidth = FirstPresent(first, <<"sample_width">>, 2)


(***************************************************************************)
(* pydub and audioop, as the effects processor uses them.  An AudioSegment *)
(* is its frame rate and its samples (16-bit, one channel).                *)
(***************************************************************************)
\* audioop clips to the range of a 16-bit sample
Clip(x) == IF x > 32767 THEN 32767 ELSE IF x < -32768 THEN -32768 ELSE x

\* int(): truncation toward zero of a / b, b > 0
TruncDiv(a, b) == IF a >= 0 THEN a \div b ELSE -((-a) \div b)

Abs(x) == IF x < 0 THEN -x ELSE x

RECURSIVE GCD(_, _)
GCD(a, b) == IF b = 0 THEN a ELSE GCD(b, a % b)

FromLE16(lo, hi) ==
    LET u == lo + 256 * hi IN IF u >= 32768 THEN u - 65536 ELSE u

UnpackLE16(data) ==
    [i \in 1..(Len(data) \div 2) |-> FromLE16(data[2 * i - 1], data[2 * i])]

Segment(rate, samples) ==
    [kind |-> "audio", frame_rate |-> rate, samples |-> samples]

\* AudioSegment.from_file(io.BytesIO(wav_bytes), format="wav")
FromFile(c) == Segment(c.framerate, UnpackLE16(c.data))

\* mutant: the export declares the standard rate, not the segment's
ExportAtStandardRate(a) == WaveWrite(1, 2, StandardRate, PackLE16(a.samples))

\* audio.export(out, format="wav")
Export(a) == WaveWrite(1, 2, a.frame_rate, PackLE16(a.samples))

\* audioop.ratecv with no carried state: linear interpolation, rates reduced
\* by their gcd; d counts output positions owed against input frames read.
\* audioop interpolates on samples scaled to 32 bits and shifts the result
\* back, which rounds down
RECURSIVE RatecvLoop(_, _, _, _, _, _, _, _)
RatecvLoop(s, i, d, prev, cur, inrate, outrate, acc) ==
    IF d < 0
    THEN IF i > Len(s) THEN acc
         ELSE RatecvLoop(s, i + 1, d + outrate, cur, s[i], inrate, outrate, acc)
    ELSE RatecvLoop(s, i, d - inrate, prev, cur, inrate, outrate,
                    Append(acc, (prev * d + cur * (outrate - d)) \div outrate))

Ratecv(s, inrate, outrate) ==
    LET g == GCD(inrate, outrate)
    IN RatecvLoop(s, 1, -(outrate \div g), 0, 0, inrate \div g, outrate \div g, <<>>)

\* AudioSegment.set_frame_rate
SetFrameRate(a, rate) ==
    IF rate = a.frame_rate THEN a
    ELSE IF a.samples # <<>> THEN Segment(rate, Ratecv(a.samples, a.frame_rate, rate))
    ELSE Segment(rate, a.samples)

\* audio._spawn(audio.raw_data, overrides={"frame_rate": new_rate})
Spawn(a, new_rate) == Segment(new_rate, a.samples)

\* 10 ** (dB / 20), in ten-thousandths
GainFactor(db) ==
    CASE db = 6 -> 19953
      [] db = -6 -> 5012
      [] OTHER -> 10000

\* AudioSegment.apply_gain: audioop.mul, floor and clip
ApplyGain(a, db) ==
    Segment(a.frame_rate,
            [i \in DOMAIN a.samples |-> Clip((a.samples[i] * GainFactor(db)) \div 10000)])

\* 2 * pi * cutoff
Omega(cutoff) == (cutoff * 6283) \div 1000

\* the filters' alpha, in thousandths
AlphaLow(a, cutoff) == (1000 * Omega(cutoff)) \div (a.frame_rate + Omega(cutoff))
AlphaHigh(a, cutoff) == (1000 * a.frame_rate) \div (a.frame_rate + Omega(cutoff))

RECURSIVE LowPassLoop(_, _, _, _, _)
LowPassLoop(x, i, last, alpha, acc) ==
    IF i > Len(x) THEN acc
    ELSE LET nxt == last + TruncDiv(alpha * (x[i] - last), 1000)
         IN LowPassLoop(x, i + 1, nxt, alpha, Append(acc, nxt))

\* AudioSegment.low_pass_filter, on a segment with at least one frame
LowPass(a, cutoff) ==
    Segment(a.frame_rate,
            LowPassLoop(a.samples, 2, a.samples[1], AlphaLow(a, cutoff), <<a.samples[1]>>))

RECURSIVE HighPassLoop(_, _, _, _, _)
HighPassLoop(x, i, last, alpha, acc) ==
    IF i > Len(x) THEN acc
    ELSE LET nxt == TruncDiv(alpha * (last + x[i] - x[i - 1]), 1000)
         IN HighPassLoop(x, i + 1, nxt, alpha, Append(acc, Clip(nxt)))

\* AudioSegment.high_pass_filter, on a segment with at least one frame
HighPass(a, cutoff) ==
    Segment(a.frame_rate,
            HighPassLoop(a.samples, 2, a.samples[1], AlphaHigh(a, cutoff), <<a.samples[1]>>))

\* a.overlay(b) for segments of one length: audioop.add, clipped
Overlay(a, b) ==
    Segment(a.frame_rate,
            [i \in DOMAIN a.samples |-> Clip(a.samples[i] + b.samples[i])])

RECURSIVE PeakOf(_)
PeakOf(s) ==
    IF s = <<>> THEN 0
    ELSE LET p == PeakOf(Tail(s)) h == Abs(Head(s)) IN IF h > p THEN h ELSE p

\* effects.normalize with its default headroom of 0.1 dB: the peak is brought
\* to 32768 * 10 ** (-0.1 / 20)
Normalized(a) ==
    LET peak == PeakOf(a.samples)
    IN IF peak = 0 THEN a
       ELSE Segment(a.frame_rate,
                    [i \in DOMAIN a.samples |-> Clip((a.samples[i] * 32393) \div peak)])


(***************************************************************************)
(* The stages of process_audio_effects (main_api.py) and process_audio     *)
(* (main.py).  Each yields the new segment; Applies says whether the stage *)
(* transforms the segment at all for that parameter value.                 *)
(***************************************************************************)
\* int(audio.frame_rate * 2 ** (pitch / 12.0)), for whole octaves
PitchRate(rate, pitch) ==
    IF pitch >= 0 THEN rate * 2 ^ (pitch \div 12)
    ELSE TruncDiv(rate, 2 ^ ((-pitch) \div 12))

\* mutant: the speed factor is inverted
SpeedRateInverted(rate, speed) == TruncDiv(rate * 100, speed)

\* int(audio.frame_rate * (speed / 100.0))
SpeedRate(rate, speed) == TruncDiv(rate * speed, 100)

PitchStage(a, pitch) ==
    IF pitch # 0
    THEN SetFrameRate(Spawn(a, PitchRate(a.frame_rate, pitch)), StandardRate)
    ELSE a

\* mutant: the rate is overridden and never set back to the standard rate
SpeedStageNoResample(a, speed) ==
    IF speed # 100 THEN Spawn(a, SpeedRate(a.frame_rate, speed)) ELSE a

SpeedStage(a, speed) ==
    IF speed # 100
    THEN SetFrameRate(Spawn(a, SpeedRate(a.frame_rate, speed)), StandardRate)
    ELSE a

\* low_pass_filter(c).apply_gain(g).overlay(high_pass_filter(c))
LowShelf(a, cutoff, g) == Overlay(ApplyGain(LowPass(a, cutoff), g), HighPass(a, cutoff))

\* high_pass_filter(c).apply_gain(g).overlay(low_pass_filter(c))
HighShelf(a, cutoff, g) == Overlay(ApplyGain(HighPass(a, cutoff), g), LowPass(a, cutoff))

BassApplies(v, bass) == bass # 0

BassStage(v, a, bass) ==
    IF bass = 0 THEN a
    ELSE IF v = "main_api"
         THEN LET first == LowShelf(a, 150, bass)
              IN IF bass > 0 THEN LowShelf(first, 200, bass) ELSE first
         ELSE ApplyGain(LowPass(a, 150), bass)

TrebleApplies(v, treble) ==
    IF v = "main_api" THEN treble # 0 /\ treble > 0 ELSE treble # 0

TrebleStage(v, a, treble) ==
    IF ~TrebleApplies(v, treble) THEN a
    ELSE IF v = "main_api" THEN HighShelf(a, 3000, treble)
         ELSE ApplyGain(HighPass(a, 3000), treble)

GainStage(a, gain) == IF gain # 0 THEN ApplyGain(a, gain) ELSE a

NormalizeStage(a, normalize) == IF normalize THEN Normalized(a) ELSE a

\* mutant: normalization is moved before the volume gain
StageOrderNormalizeEarly ==
    <<"pitch", "speed", "bass", "treble", "normalize", "gain">>

\* the order in which the function body runs its stages
StageOrder == <<"pitch", "speed", "bass", "treble", "gain", "normalize">>

NextPc(stage) ==
    LET i == CHOOSE k \in DOMAIN StageOrder : StageOrder[k] = stage
    IN IF i = Len(StageOrder) THEN "export" ELSE StageOrder[i + 1]

(***************************************************************************)
(* Steps of one call of the effects processor.                             *)
(***************************************************************************)
SampleVals == {-12000, 0, 20000}
InputRates == {22050, 24000}
Pitches == {-12, 0, 12}
Speeds == {50, 100, 200}
Decibels == {-6, 0, 6}

SampleSeqs == UNION {[1..n -> SampleVals] : n \in 0..MaxFrames}

ParamSets ==
    [pitch : Pitches, speed : Speeds, bass : Decibels, treble : Decibels,
     gain : Decibels, normalize : BOOLEAN]

SynthIdle == text = <<>> /\ voice = None /\ calls = <<>> /\ result = None

FxInit ==
    /\ variant \in Variants
    /\ params \in ParamSets
    /\ \E r \in InputRates, s \in SampleSeqs :
         wav_bytes = WaveWrite(1, 2, r, PackLE16(s))
    /\ pc = "decode"
    /\ audio = None
    /\ stages = <<>>
    /\ out = None
    /\ SynthIdle

\* a stage step: the segment it leaves, and whether it counts as applied
Step(stage, next, applied) ==
    /\ pc = stage
    /\ audio' = next
    /\ stages' = IF applied THEN Append(stages, stage) ELSE stages
    /\ pc' = NextPc(stage)
    /\ out' = out
    /\ UNCHANGED <<variant, text, voice, calls, result, wav_bytes, params>>

\* a filter indexes the first frame of the segment it is given
Raise(stage) ==
    /\ pc = stage
    /\ out' = Error("IndexError", "array index out of range")
    /\ pc' = "done"
    /\ UNCHANGED <<variant, text, voice, calls, result, wav_bytes, params, audio, stages>>

Decode ==
    /\ pc = "decode"
    /\ audio' = FromFile(wav_bytes)
    /\ pc' = StageOrder[1]
    /\ UNCHANGED <<variant, text, voice, calls, result, wav_bytes, params, stages, out>>

Pitch == Step("pitch", PitchStage(audio, params.pitch), params.pitch # 0)

Speed == Step("speed", SpeedStage(audio, params.speed), params.speed # 100)

Bass ==
    IF pc = "bass" /\ BassApplies(variant, params.bass) /\ audio.samples = <<>>
    THEN Raise("bass")
    ELSE Step("bass", BassStage(variant, audio, params.bass),
              BassApplies(variant, params.bass))

Treble ==
    IF pc = "treble" /\ TrebleApplies(variant, params.treble) /\ audio.samples = <<>>
    THEN Raise("treble")
    ELSE Step("treble", TrebleStage(variant, audio, params.treble),
              TrebleApplies(variant, params.treble))

Gain == Step("gain", GainStage(audio, params.gain), params.gain # 0)

Normalize ==
    Step("normalize", NormalizeStage(audio, params.normalize), params.normalize)

ExportWav ==
    /\ pc = "export"
    /\ out' = Ok(Export(audio), "export")
    /\ pc' = "done"
    /\ UNCHANGED <<variant, text, voice, calls, result, wav_bytes, params, audio, stages>>

FxNext ==
    \/ Decode \/ Pitch \/ Speed \/ Bass \/ Treble \/ Gain \/ Normalize \/ ExportWav

FxSpec == FxInit /\ [][FxNext]_vars


(***************************************************************************)
(* Claims about the effects processor, checked under FxSpec.               *)
(***************************************************************************)
Returned == pc = "done" /\ out.kind = "ok"

Ran(stage) == \E i \in DOMAIN stages : stages[i] = stage

\* frames of a 16-bit mono container
FrameCount(c) == Len(c.data) \div 2

\* C5: with a negative bass (treble) gain the bass (treble) stage leaves the
\* waveform unchanged.
C5_NegativeShelfIsNoOp ==
    [][ ((pc = "bass" /\ params.bass < 0) \/ (pc = "treble" /\ params.treble < 0))
          => audio' = audio ]_vars

AllNoOp ==
    /\ params.pitch = 0 /\ params.speed = 100
    /\ params.bass = 0 /\ params.treble = 0
    /\ params.gain = 0 /\ params.normalize = FALSE

\* C6: with every parameter at its no-op value no stage is applied and the
\* output is byte-identical to the input container.
C6_PassThrough ==
    (pc = "done" /\ AllNoOp) =>
      /\ out.kind = "ok"
      /\ out.wav = wav_bytes
      /\ stages = <<>>

C6_Witness ==
    /\ Returned /\ AllNoOp
    /\ wav_bytes.framerate = 22050
    /\ FrameCount(wav_bytes) = 3
    /\ out.wav.data = wav_bytes.data

\* the order the claim fixes
Position(stage) ==
    CASE stage = "pitch" -> 1
      [] stage = "speed" -> 2
      [] stage = "bass" -> 3
      [] stage = "treble" -> 4
      [] stage = "gain" -> 5
      [] stage = "normalize" -> 6

\* C7: the stages that run do so in the order pitch, speed, bass, treble,
\* gain, normalization, each at most once; a stage at its no-op value does
\* not run; with normalize set, normalization is the last stage before
\* encoding.
C7_FixedStageOrder ==
    /\ \A i, j \in DOMAIN stages : i < j => Position(stages[i]) < Position(stages[j])
    /\ pc \in {"export", "done"} /\ (pc = "done" => out.kind = "ok") =>
         /\ Ran("pitch") <=> params.pitch # 0
         /\ Ran("speed") <=> params.speed # 100
         /\ params.bass = 0 => ~Ran("bass")
         /\ params.treble = 0 => ~Ran("treble")
         /\ Ran("gain") <=> params.gain # 0
         /\ Ran("normalize") <=> params.normalize
         /\ params.normalize => stages[Len(stages)] = "normalize"

C7_Witness ==
    /\ Returned
    /\ stages = <<"pitch", "speed", "bass", "treble", "gain", "normalize">>

\* C9: when the pitch or the speed stage is applied the output declares
\* 24000 Hz whatever the input declared; when neither is, the output declares
\* the input's rate.
C9_DeclaredRate ==
    Returned =>
      IF params.pitch # 0 \/ params.speed # 100
      THEN out.wav.framerate = 24000
      ELSE out.wav.framerate = wav_bytes.framerate

C9_Witness ==
    /\ Returned
    /\ wav_bytes.framerate = 22050
    /\ params.pitch = 0 /\ params.speed = 200
    /\ FrameCount(wav_bytes) = 3
    /\ out.wav.framerate = 24000

\* m output frames at 24000 Hz stand for n frames reinterpreted at rate r,
\* to within one frame of rounding
Resampled(n, r, m) ==
    LET d == m * r - n * 24000
        tol == IF r > 24000 THEN r ELSE 24000
    IN -tol < d /\ d < tol

OthersNoOp ==
    /\ params.bass = 0 /\ params.treble = 0
    /\ params.gain = 0 /\ params.normalize = FALSE

\* C10: with the other stages at no-op, a speed change alone turns n frames
\* at rate R into n * 24000 / int(R * speed / 100) frames up to rounding (half
\* the duration at 200, double at 50); with a pitch shift before it the two
\* factors multiply.
C10_SpeedScalesDuration ==
    (Returned /\ OthersNoOp /\ params.speed # 100) =>
      LET n == FrameCount(wav_bytes)
          m == FrameCount(out.wav)
          R == wav_bytes.framerate
      IN IF params.pitch = 0
         THEN /\ Resampled(n, (R * params.speed) \div 100, m)
              /\ (R = 24000 /\ params.speed = 200) => (2 * m = n \/ 2 * m = n + 1)
              /\ (R = 24000 /\ params.speed = 50 /\ n > 0) => m = 2 * n - 1
         ELSE \E k \in 0..(4 * n) :
                /\ Resampled(n, IF params.pitch = 12 THEN R * 2 ELSE R \div 2, k)
                /\ Resampled(k, (24000 * params.speed) \div 100, m)

C10_Witness ==
    /\ Returned /\ OthersNoOp
    /\ params.pitch = -12 /\ params.speed = 50
    /\ wav_bytes.framerate = 24000
    /\ FrameCount(wav_bytes) = 3
    /\ FrameCount(out.wav) = 9

=============================================================================
